---- MODULE Spec2Model ----
(***************************************************************************)
(* Model of bin/skills.js: the scaffolder (init), the manifest             *)
(* synchroniser (sync), the read-only report (list) and the dispatcher.    *)
(*                                                                         *)
(* Text is a sequence of tokens.  A template body is a sequence of tokens  *)
(* in which "{PROJECT_NAME}" and "{OTHER}" are placeholder tokens.  A      *)
(* SKILL.md body is a sequence of lines, each line a sequence of tokens    *)
(* where ":" is a colon, " " is white space and "---" the marker.  A JSON  *)
(* scalar is a record [t, v]: its type and its token sequence.             *)
(*                                                                         *)
(* input and output hold the argument and the result of the last direct    *)
(* application of a helper (the template engine, the frontmatter parser).  *)
(*                                                                         *)
(* prior remembers the command that ran before the last one: its command   *)
(* line, its exit status and the tree it started from.  procs holds the    *)
(* position and the local variables of each process when several           *)
(* processes run at once, and writes lists the calls of writeFileSync on   *)
(* the manifest that they made, in order.  faults counts the filesystem    *)
(* errors that have interrupted a command.                                 *)
(***************************************************************************)
EXTENDS Integers, Sequences, FiniteSets, TLC

VARIABLES fs, before, last, repeat, report, exitCode, tpl, input, output,
          prior, procs, writes, faults

vars == <<fs, before, last, repeat, report, exitCode, tpl, input, output,
          prior, procs, writes, faults>>

(***************************************************************************)
(* Paths                                                                   *)
(***************************************************************************)
Cwd == "."

SkillsDir == ".agents/skills"

ManifestPath == ".agents/skills/skills.json"

\* dirs with the directories of full mode pushed in every mode
LiteDirsAndFull ==
  <<".context", ".context/specs", ".agents/skills", ".context/specs/.archive", ".github">>

LiteDirs == <<".context", ".context/specs", ".agents/skills">>

FullDirs == <<".context/specs/.archive", ".github">>

Dirs == {".context", ".context/specs", ".context/specs/.archive", ".agents",
         ".agents/skills", ".github"}

ScaffoldFiles == {"AGENTS.md", ".context/project.md", ".context/conventions.md",
                  ".context/architecture.md", ".context/stack.md",
                  ".context/specs/_template.md", ".cursorrules",
                  ".github/copilot-instructions.md"}

Files == ScaffoldFiles \cup {ManifestPath}

TemplateNames == {"AGENTS.md", "project.md", "conventions.md",
                  "architecture.md", "stack.md", "_template.md"}

\* path.dirname of every path the program touches
Dirname(p) ==
  CASE p \in {"AGENTS.md", ".cursorrules", ".context", ".agents", ".github"} -> Cwd
    [] p \in {".context/project.md", ".context/conventions.md",
              ".context/architecture.md", ".context/stack.md",
              ".context/specs"} -> ".context"
    [] p \in {".context/specs/_template.md", ".context/specs/.archive"} -> ".context/specs"
    [] p = ".github/copilot-instructions.md" -> ".github"
    [] p = ".agents/skills" -> ".agents"
    [] p = ManifestPath -> ".agents/skills"

RECURSIVE Ancestors(_)
\* the directory p and every directory above it, below the working directory
Ancestors(p) == IF p = Cwd THEN {} ELSE {p} \cup Ancestors(Dirname(p))

(***************************************************************************)
(* File contents                                                           *)
(***************************************************************************)
NoFile == [kind |-> "none"]

TextFile(body) == [kind |-> "text", body |-> body]

\* the names a skill directory entry can have; "__proto__" is a legal
\* directory name and a special property key of a JavaScript object
SkillNames == {"alpha", "beta", "__proto__"}

ProjectNames == {"acme", "beta"}

NoArg == "<none>"

\* path.basename(process.cwd()), used when no positional argument is given
CwdName == "acme"

EmptyTree ==
  [dirs |-> {},
   files |-> [p \in Files |-> NoFile],
   entries |-> [n \in SkillNames |-> "none"],
   skillmd |-> [n \in SkillNames |-> NoFile]]

\* fs.existsSync
ExistsDir(f, d) == d = Cwd \/ d \in f.dirs

ExistsFile(f, p) == f.files[p] # NoFile

\* fs.mkdirSync(dir, { recursive: true })
MkdirP(f, d) == [f EXCEPT !.dirs = @ \cup Ancestors(d)]

(***************************************************************************)
(* A running command: the tree, the lines printed so far, the error, and   *)
(* the count printed in the header of list (-1 when none was printed)      *)
(***************************************************************************)
Proc(f) == [fs |-> f, out |-> <<>>, err |-> "none", header |-> -1]

Log(ps, k, item) == [ps EXCEPT !.out = Append(@, [k |-> k, item |-> item])]

\* writeFile without the existsSync test of line 335
WriteFileOverwriting(ps, relativePath, content) ==
  [ps EXCEPT !.fs = [MkdirP(ps.fs, Dirname(relativePath))
                       EXCEPT !.files[relativePath] = content]]

\* writeFile appending to a file that exists instead of skipping it
WriteFileAppending(ps, relativePath, content) ==
  LET made == [ps EXCEPT !.fs = MkdirP(ps.fs, Dirname(relativePath))]
      old == made.fs.files[relativePath]
  IN  IF ExistsFile(made.fs, relativePath) /\ old.kind = "text" /\ content.kind = "text"
      THEN [made EXCEPT !.fs.files[relativePath] = TextFile(old.body \o content.body)]
      ELSE [made EXCEPT !.fs.files[relativePath] = content]

\* writeFile(relativePath, content)
WriteFile(ps, relativePath, content) ==
  LET made == [ps EXCEPT !.fs = MkdirP(ps.fs, Dirname(relativePath))]
  IN  IF ExistsFile(made.fs, relativePath)
      THEN Log(made, "skipped", relativePath)
      ELSE [made EXCEPT !.fs.files[relativePath] = content]

(***************************************************************************)
(* Template engine                                                         *)
(***************************************************************************)
Placeholder(key) ==
  CASE key = "PROJECT_NAME" -> "{PROJECT_NAME}"
    [] key = "OTHER" -> "{OTHER}"

\* String.prototype.replace with a string replacement: "$$" and "$&" in
\* the replacement are patterns, every other value stands for itself
Substitution(value, matched) ==
  CASE value = "$&" -> matched
    [] value = "$$" -> "$"
    [] OTHER -> value

\* content.replace(new RegExp(`\\{${key}\\}`, "g"), value)
ReplaceAll(content, key, value) ==
  [i \in 1..Len(content) |->
     IF content[i] = Placeholder(key) THEN Substitution(value, content[i])
     ELSE content[i]]

RECURSIVE ApplyReplacements(_, _)
\* for (const [key, value] of Object.entries(replacements))
ApplyReplacements(content, replacements) ==
  IF replacements = <<>> THEN content
  ELSE ApplyReplacements(ReplaceAll(content, Head(replacements)[1], Head(replacements)[2]),
                         Tail(replacements))

\* the fallback without its TODO body
FallbackBare(templateName) == <<"# ", templateName>>

Fallback(templateName) == <<"# ", templateName, "\n\nTODO: Configure this file.\n">>

\* the content writeTemplate computes
Render(t, templateName, replacements) ==
  IF t[templateName] # NoFile
  THEN ApplyReplacements(t[templateName].body, replacements)
  ELSE Fallback(templateName)

\* writeTemplate(templateName, outputPath, replacements)
WriteTemplate(ps, t, templateName, outputPath, replacements) ==
  WriteFile(ps, outputPath, TextFile(Render(t, templateName, replacements)))

Bind(projectName) == << <<"PROJECT_NAME", projectName>> >>

(***************************************************************************)
(* JSON values                                                             *)
(***************************************************************************)
Str(v) == [t |-> "str", v |-> v]

Num(v) == [t |-> "num", v |-> <<v>>]

Null == [t |-> "null", v |-> <<>>]

False == [t |-> "bool", v |-> <<"false">>]

Undefined == [t |-> "undefined", v |-> <<>>]

\* JSON.parse of a scalar: a number too large for a double reads as Infinity
ParseScalar(x) == IF x = Num("1e999") THEN Num("Infinity") ELSE x

\* JSON.stringify of a scalar: a non-finite number is written as null
StringifyScalar(x) == IF x = Num("Infinity") THEN Null ELSE x

\* ToBoolean
Truthy(x) == x \notin {Undefined, Null, False, Num("0"), Str(<<>>)}

SchemaUri == Str(<<"https://vibecoding.dev/schemas/skills.json">>)

\* a JSON document as text: its layout, its top-level members other than
\* skills, and the skills member (absent, or an object name -> record)
JsonFile(fmt, top, hasSkills, skills) ==
  [kind |-> "json", fmt |-> fmt, top |-> top, hasSkills |-> hasSkills, skills |-> skills]

StdTop == [schema |-> SchemaUri, version |-> Str(<<"1.0.0">>), extra |-> FALSE]

NoSkills == [n \in {} |-> Null]

\* JSON.stringify(manifest, null, 2) + "\n" of { $schema, version, skills }
StringifyManifest(skills) ==
  JsonFile("indent2", StdTop, TRUE,
           [n \in DOMAIN skills |->
              [version |-> StringifyScalar(skills[n].version),
               source |-> StringifyScalar(skills[n].source),
               description |-> StringifyScalar(skills[n].description),
               extra |-> FALSE]])

EmptyManifest == StringifyManifest(NoSkills)

(***************************************************************************)
(* init                                                                    *)
(***************************************************************************)
RECURSIVE MakeDirs(_, _)
\* for (const dir of dirs) { mkdirSync(dir, recursive); log "Created dir/" }
MakeDirs(ps, dirs) ==
  IF dirs = <<>> THEN ps
  ELSE MakeDirs(Log([ps EXCEPT !.fs = MkdirP(ps.fs, Head(dirs))], "created", Head(dirs)),
                Tail(dirs))

\* the three files of every mode
InitLiteFiles(ps, t, projectName) ==
  LET a == Log(WriteTemplate(ps, t, "AGENTS.md", "AGENTS.md", Bind(projectName)),
               "created", "AGENTS.md")
      b == Log(WriteTemplate(a, t, "project.md", ".context/project.md", Bind(projectName)),
               "created", ".context/project.md")
  IN  Log(WriteTemplate(b, t, "conventions.md", ".context/conventions.md", <<>>),
          "created", ".context/conventions.md")

StubContent ==
  TextFile(<<"Read and follow all instructions in AGENTS.md at the project root.\n",
             "Read the .context/ directory for project-specific knowledge.\n",
             "Skills are in .agents/skills/ - load only when relevant to the current task.\n">>)

\* the manifest step of full mode with the existsSync guard (line 119) removed
InitManifestUnguarded(ps) ==
  Log(WriteFileOverwriting(ps, ManifestPath, EmptyManifest), "created", ManifestPath)

\* if (!fs.existsSync(manifestPath)) { writeFile(...); log }
InitManifest(ps) ==
  IF ~ExistsFile(ps.fs, ManifestPath)
  THEN Log(WriteFile(ps, ManifestPath, EmptyManifest), "created", ManifestPath)
  ELSE ps

\* the body of if (isFull) { ... } without the second stub (lines 109-110)
InitFullFilesOneStub(ps, t, projectName) ==
  LET a == Log(WriteTemplate(ps, t, "architecture.md", ".context/architecture.md",
                             Bind(projectName)),
               "created", ".context/architecture.md")
      b == Log(WriteTemplate(a, t, "stack.md", ".context/stack.md", <<>>),
               "created", ".context/stack.md")
      c == Log(WriteTemplate(b, t, "_template.md", ".context/specs/_template.md", <<>>),
               "created", ".context/specs/_template.md")
      d == Log(WriteFile(c, ".cursorrules", StubContent), "created", ".cursorrules")
  IN  InitManifest(d)

\* the body of if (isFull) { ... }
InitFullFiles(ps, t, projectName) ==
  LET a == Log(WriteTemplate(ps, t, "architecture.md", ".context/architecture.md",
                             Bind(projectName)),
               "created", ".context/architecture.md")
      b == Log(WriteTemplate(a, t, "stack.md", ".context/stack.md", <<>>),
               "created", ".context/stack.md")
      c == Log(WriteTemplate(b, t, "_template.md", ".context/specs/_template.md", <<>>),
               "created", ".context/specs/_template.md")
      d == Log(WriteFile(c, ".cursorrules", StubContent), "created", ".cursorrules")
      e == Log(WriteFile(d, ".github/copilot-instructions.md", StubContent),
               "created", ".github/copilot-instructions.md")
  IN  InitManifest(e)

\* handleInit in which full mode writes the files of full mode only
HandleInitFullOnly(ps, t, args) ==
  LET isFull == args.full
      projectName == IF args.name = NoArg THEN CwdName ELSE args.name
      dirs == IF isFull THEN LiteDirs \o FullDirs ELSE LiteDirs
      made == MakeDirs(ps, dirs)
  IN  IF isFull THEN InitFullFiles(made, t, projectName)
      ELSE InitLiteFiles(made, t, projectName)

\* handleInit(args), args = [name, full]
HandleInit(ps, t, args) ==
  LET isFull == args.full
      projectName == IF args.name = NoArg THEN CwdName ELSE args.name
      dirs == IF isFull THEN LiteDirs \o FullDirs ELSE LiteDirs
      made == MakeDirs(ps, dirs)
      lite == InitLiteFiles(made, t, projectName)
  IN  IF isFull THEN InitFullFiles(lite, t, projectName) ELSE lite

(***************************************************************************)
(* init interrupted by a filesystem error: the calls of handleInit in      *)
(* order, each one a step that can throw                                   *)
(***************************************************************************)
DirStep(dir) == [op |-> "mkdir", path |-> dir, tname |-> "", bound |-> FALSE]

TemplateStep(templateName, outputPath, bound) ==
  [op |-> "template", path |-> outputPath, tname |-> templateName, bound |-> bound]

StubStep(relativePath) == [op |-> "stub", path |-> relativePath, tname |-> "", bound |-> FALSE]

ManifestStep == [op |-> "manifest", path |-> ManifestPath, tname |-> "", bound |-> FALSE]

\* the statements of handleInit, lines 61-131
InitSteps(isFull) ==
  LET dirs == IF isFull THEN LiteDirs \o FullDirs ELSE LiteDirs
      lite == <<TemplateStep("AGENTS.md", "AGENTS.md", TRUE),
                TemplateStep("project.md", ".context/project.md", TRUE),
                TemplateStep("conventions.md", ".context/conventions.md", FALSE)>>
      full == <<TemplateStep("architecture.md", ".context/architecture.md", TRUE),
                TemplateStep("stack.md", ".context/stack.md", FALSE),
                TemplateStep("_template.md", ".context/specs/_template.md", FALSE),
                StubStep(".cursorrules"),
                StubStep(".github/copilot-instructions.md"),
                ManifestStep>>
  IN  [i \in 1..Len(dirs) |-> DirStep(dirs[i])] \o lite \o (IF isFull THEN full ELSE <<>>)

\* one statement that completes
ExecStep(ps, t, projectName, st) ==
  CASE st.op = "mkdir" ->
         Log([ps EXCEPT !.fs = MkdirP(ps.fs, st.path)], "created", st.path)
    [] st.op = "template" ->
         Log(WriteTemplate(ps, t, st.tname, st.path,
                           IF st.bound THEN Bind(projectName) ELSE <<>>),
             "created", st.path)
    [] st.op = "stub" -> Log(WriteFile(ps, st.path, StubContent), "created", st.path)
    [] st.op = "manifest" -> InitManifest(ps)

RECURSIVE RunSteps(_, _, _, _)
RunSteps(ps, t, projectName, steps) ==
  IF steps = <<>> THEN ps
  ELSE RunSteps(ExecStep(ps, t, projectName, Head(steps)), t, projectName, Tail(steps))

\* what a failed call leaves: mkdirSync throws and makes nothing;
\* writeFileSync throws before it has created the file ("open"), or after
\* it has created it and before the content is written ("write")
FaultKinds == {"mkdir", "open", "write"}

\* a file that writeFileSync created and did not fill
Truncated == TextFile(<<>>)

\* the call of kind k is reached in statement st
FaultPossible(ps, st, k) ==
  IF st.op = "mkdir" THEN k = "mkdir"
  ELSE ~ExistsFile(ps.fs, st.path)

\* statement st throws in its call of kind k
FailStep(ps, st, k) ==
  LET made == [ps EXCEPT !.fs = MkdirP(ps.fs, Dirname(st.path))]
  IN  CASE k = "mkdir" -> [ps EXCEPT !.err = "EACCES"]
        [] k = "open" -> [made EXCEPT !.err = "EACCES"]
        [] k = "write" -> [made EXCEPT !.fs.files[st.path] = Truncated, !.err = "ENOSPC"]

\* handleInit(args) in which statement n throws: the statements before
\* it have run, none after it runs
HandleInitAborted(ps, t, args, n, k) ==
  LET projectName == IF args.name = NoArg THEN CwdName ELSE args.name
      steps == InitSteps(args.full)
      pre == RunSteps(ps, t, projectName, SubSeq(steps, 1, n - 1))
  IN  FailStep(pre, steps[n], k)

(***************************************************************************)
(* Frontmatter parser                                                      *)
(***************************************************************************)
Marker == "---"

StartsWithMarker(line) == Len(line) >= 1 /\ line[1] = Marker

\* content.match(/^---\r?\n([\s\S]*?)\r?\n---/): the first line is the
\* marker alone, and the lazy group ends before the first later line, the
\* third at the earliest, that begins with the marker
ClosingLines(content) == {j \in 3..Len(content) : StartsWithMarker(content[j])}

FrontmatterMatches(content) ==
  /\ Len(content) >= 3
  /\ content[1] = <<Marker>>
  /\ ClosingLines(content) # {}

FirstClosing(content) ==
  CHOOSE j \in ClosingLines(content) : \A k \in ClosingLines(content) : j <= k

\* match[1].split(/\r?\n/)
MatchedLines(content) == SubSeq(content, 2, FirstClosing(content) - 1)

Colons(line) == {i \in 1..Len(line) : line[i] = ":"}

FirstColon(line) == CHOOSE i \in Colons(line) : \A k \in Colons(line) : i <= k

RECURSIVE TrimLeft(_)
TrimLeft(s) == IF s # <<>> /\ Head(s) = " " THEN TrimLeft(Tail(s)) ELSE s

RECURSIVE TrimRight(_)
TrimRight(s) ==
  IF s # <<>> /\ s[Len(s)] = " " THEN TrimRight(SubSeq(s, 1, Len(s) - 1)) ELSE s

\* String.prototype.trim
Trim(s) == TrimRight(TrimLeft(s))

\* parts[0].trim()
LineKey(line) == Trim(SubSeq(line, 1, FirstColon(line) - 1))

\* parts.slice(1).join(':').trim()
LineValue(line) == Trim(SubSeq(line, FirstColon(line) + 1, Len(line)))

\* frontmatter[key] = value; a string assigned to "__proto__" is dropped
SetKey(fm, key, value) ==
  IF key = <<"__proto__">> THEN fm
  ELSE [k \in DOMAIN fm \cup {key} |-> IF k = key THEN value ELSE fm[k]]

RECURSIVE ParseLines(_, _)
\* for (const line of lines) { if (parts.length >= 2) ... }
ParseLines(lines, fm) ==
  IF lines = <<>> THEN fm
  ELSE LET line == Head(lines)
       IN  ParseLines(Tail(lines),
                      IF Colons(line) # {}
                      THEN SetKey(fm, LineKey(line), LineValue(line))
                      ELSE fm)

EmptyMapping == [k \in {} |-> <<>>]

\* parseFrontmatter(content)
ParseFrontmatter(content) ==
  IF ~FrontmatterMatches(content) THEN EmptyMapping
  ELSE ParseLines(MatchedLines(content), EmptyMapping)

\* metadata.<key>
Field(fm, key) == IF <<key>> \in DOMAIN fm THEN Str(fm[<<key>>]) ELSE Undefined

\* a || b
OrElse(a, b) == IF Truthy(a) THEN a ELSE b

(***************************************************************************)
(* sync                                                                    *)
(***************************************************************************)
DefaultVersion == Str(<<"1.0.0">>)

DefaultDescription == Str(<<"No description provided">>)

Local == Str(<<"local">>)

\* the order in which readdirSync lists the skills directory
EntryOrder == <<"__proto__", "alpha", "beta">>

\* JSON.parse of the manifest text: the members of every record
ParseRecords(file) ==
  [n \in DOMAIN file.skills |->
     [version |-> ParseScalar(file.skills[n].version),
      source |-> ParseScalar(file.skills[n].source),
      description |-> ParseScalar(file.skills[n].description)]]

Parsable(file) == file.kind = "json"

\* lines 163-176 with the catch treating a parse failure as fatal
PreviousSkillsStrict(ps) ==
  IF ~ExistsFile(ps.fs, ManifestPath) THEN [ps |-> ps, skills |-> NoSkills]
  ELSE IF ~Parsable(ps.fs.files[ManifestPath])
       THEN [ps |-> [ps EXCEPT !.err = "SyntaxError"], skills |-> NoSkills]
       ELSE [ps |-> ps,
             skills |-> IF ps.fs.files[ManifestPath].hasSkills
                        THEN ParseRecords(ps.fs.files[ManifestPath])
                        ELSE NoSkills]

\* lines 163-176: manifest.skills before the scan
PreviousSkills(ps) ==
  IF ~ExistsFile(ps.fs, ManifestPath) THEN [ps |-> ps, skills |-> NoSkills]
  ELSE IF ~Parsable(ps.fs.files[ManifestPath])
       THEN [ps |-> Log(ps, "warn", ManifestPath), skills |-> NoSkills]
       ELSE [ps |-> ps,
             skills |-> IF ps.fs.files[ManifestPath].hasSkills
                        THEN ParseRecords(ps.fs.files[ManifestPath])
                        ELSE NoSkills]

\* manifest.skills[skillName]?.source
PreviousSource(skills, skillName) ==
  IF skillName \in DOMAIN skills THEN skills[skillName].source ELSE Undefined

\* the record of lines 190-195 with the previous version preferred
SkillRecordStale(skills, skillName, metadata) ==
  [version |-> OrElse(IF skillName \in DOMAIN skills
                      THEN skills[skillName].version ELSE Undefined,
                      OrElse(Field(metadata, "version"), DefaultVersion)),
   source |-> OrElse(PreviousSource(skills, skillName), Local),
   description |-> OrElse(Field(metadata, "description"), DefaultDescription)]

\* the record of lines 190-195
SkillRecord(skills, skillName, metadata) ==
  [version |-> OrElse(Field(metadata, "version"), DefaultVersion),
   source |-> OrElse(PreviousSource(skills, skillName), Local),
   description |-> OrElse(Field(metadata, "description"), DefaultDescription)]

\* detectedSkills[skillName] = record: assigning to "__proto__" sets the
\* prototype of detectedSkills and adds no own property
Assign(obj, key, value) ==
  IF key = "__proto__" THEN obj
  ELSE [k \in DOMAIN obj \cup {key} |-> IF k = key THEN value ELSE obj[k]]

RECURSIVE Scan(_, _, _, _)
\* for (const entry of entries) { ... }: st = [ps, detected]
Scan(st, f, skills, entries) ==
  IF entries = <<>> THEN st
  ELSE LET skillName == Head(entries)
           next ==
             IF f.entries[skillName] # "dir" THEN st
             ELSE IF f.skillmd[skillName] # NoFile
                  THEN [ps |-> Log(st.ps, "detected", skillName),
                        detected |->
                          Assign(st.detected, skillName,
                                 SkillRecord(skills, skillName,
                                             ParseFrontmatter(f.skillmd[skillName].body)))]
                  ELSE [ps |-> Log(st.ps, "skipping", skillName),
                        detected |-> st.detected]
       IN  Scan(next, f, skills, Tail(entries))

NoSkillsDirError == "No .agents/skills/ directory found. Run 'init --full' first."

\* handleSync creating the skills directory instead of throwing (lines 153-157)
HandleSyncLenient(ps) ==
  LET made == [ps EXCEPT !.fs = MkdirP(ps.fs, SkillsDir)]
      prev == PreviousSkills(made)
      scanned == Scan([ps |-> prev.ps, detected |-> NoSkills], made.fs, prev.skills,
                      EntryOrder)
  IN  Log([scanned.ps EXCEPT !.fs.files[ManifestPath] = StringifyManifest(scanned.detected)],
          "updated", ManifestPath)

\* handleSync(); an exception thrown while reading the previous manifest
\* would leave the handler at once
HandleSync(ps) ==
  IF ~ExistsDir(ps.fs, SkillsDir) THEN [ps EXCEPT !.err = NoSkillsDirError]
  ELSE LET prev == PreviousSkills(ps)
       IN  IF prev.ps.err # "none" THEN prev.ps
           ELSE LET scanned == Scan([ps |-> prev.ps, detected |-> NoSkills], ps.fs,
                                    prev.skills, EntryOrder)
                IN  Log([scanned.ps EXCEPT !.fs.files[ManifestPath] =
                                             StringifyManifest(scanned.detected)],
                        "updated", ManifestPath)

(***************************************************************************)
(* sync interrupted by a filesystem error                                  *)
(***************************************************************************)
RECURSIVE EntriesBefore(_, _)
\* the entries listed before the entry n
EntriesBefore(entries, n) ==
  IF entries = <<>> \/ Head(entries) = n THEN <<>>
  ELSE <<Head(entries)>> \o EntriesBefore(Tail(entries), n)

\* where sync can throw after line 157: in readdirSync, or in the
\* readFileSync of the SKILL.md of one entry
SyncFaults == {"readdir"} \cup SkillNames

\* handleSync writing an empty manifest before it scans
HandleSyncAbortedAfterWrite(ps, at) ==
  IF ~ExistsDir(ps.fs, SkillsDir) THEN [ps EXCEPT !.err = NoSkillsDirError]
  ELSE [ps EXCEPT !.fs.files[ManifestPath] = EmptyManifest, !.err = "EACCES"]

\* handleSync() in which the call at throws: the entries before it have
\* been scanned, the manifest is not written
HandleSyncAborted(ps, at) ==
  IF ~ExistsDir(ps.fs, SkillsDir) THEN [ps EXCEPT !.err = NoSkillsDirError]
  ELSE LET prev == PreviousSkills(ps)
       IN  IF at = "readdir" THEN [prev.ps EXCEPT !.err = "EACCES"]
           ELSE LET scanned == Scan([ps |-> prev.ps, detected |-> NoSkills], ps.fs,
                                    prev.skills, EntriesBefore(EntryOrder, at))
                IN  [scanned.ps EXCEPT !.err = "EISDIR"]

(***************************************************************************)
(* list                                                                    *)
(***************************************************************************)
RECURSIVE PrintGroup(_, _, _, _)
\* for (const [name, info] of group) console.log(...)
PrintGroup(ps, skills, names, title) ==
  IF names = <<>> THEN ps
  ELSE PrintGroup(IF Head(names) \in DOMAIN skills
                     /\ skills[Head(names)].source = Str(<<title>>)
                  THEN Log(ps, title, Head(names)) ELSE ps,
                  skills, Tail(names), title)

\* handleList creating the empty manifest when there is none
HandleListCreating(ps) ==
  IF ~ExistsFile(ps.fs, ManifestPath)
  THEN Log(WriteFile(ps, ManifestPath, EmptyManifest), "none-installed", ManifestPath)
  ELSE IF ~Parsable(ps.fs.files[ManifestPath]) THEN [ps EXCEPT !.err = "SyntaxError"]
  ELSE IF ~ps.fs.files[ManifestPath].hasSkills THEN [ps EXCEPT !.err = "TypeError"]
  ELSE LET skills == ParseRecords(ps.fs.files[ManifestPath])
       IN  IF DOMAIN skills = {} THEN Log(ps, "no-skills", ManifestPath)
           ELSE LET h == [ps EXCEPT !.header = Cardinality(DOMAIN skills)]
                    c == PrintGroup(h, skills, EntryOrder, "core")
                    r == PrintGroup(c, skills, EntryOrder, "registry")
                    g == PrintGroup(r, skills, EntryOrder, "legacy")
                IN  PrintGroup(g, skills, EntryOrder, "local")

\* handleList()
HandleList(ps) ==
  IF ~ExistsFile(ps.fs, ManifestPath) THEN Log(ps, "none-installed", ManifestPath)
  ELSE IF ~Parsable(ps.fs.files[ManifestPath]) THEN [ps EXCEPT !.err = "SyntaxError"]
  ELSE IF ~ps.fs.files[ManifestPath].hasSkills THEN [ps EXCEPT !.err = "TypeError"]
  ELSE LET skills == ParseRecords(ps.fs.files[ManifestPath])
       IN  IF DOMAIN skills = {} THEN Log(ps, "no-skills", ManifestPath)
           ELSE LET h == [ps EXCEPT !.header = Cardinality(DOMAIN skills)]
                    c == PrintGroup(h, skills, EntryOrder, "core")
                    r == PrintGroup(c, skills, EntryOrder, "registry")
                    g == PrintGroup(r, skills, EntryOrder, "legacy")
                IN  PrintGroup(g, skills, EntryOrder, "local")

(***************************************************************************)
(* Dispatcher                                                              *)
(***************************************************************************)
NoCommand == "<none>"

HelpFlags == {NoCommand, "--help", "-h"}

\* the own keys of COMMANDS
CommandNames == {"init", "sync", "list", "help"}

\* keys COMMANDS inherits from Object.prototype: the lookup yields a
\* function that is no handler
InheritedNames == {"constructor"}

UnknownNames == {"add"}

\* handleHelp()
HandleHelp(ps) == Log(ps, "usage", "")

\* handler(args).catch(...) printing the message without process.exit(1)
SettledSwallowed(r) == [ps |-> r, code |-> 0]

\* handler(args).catch(...): a rejected promise prints and exits 1, a
\* fulfilled one lets the process end with status 0
Settled(r) == [ps |-> r, code |-> IF r.err = "none" THEN 0 ELSE 1]

\* lines 29-46: the outcome of one invocation, [ps, code]
Dispatch(f, t, cl) ==
  LET ps == Proc(f)
  IN  IF cl.cmd \in HelpFlags THEN [ps |-> HandleHelp(ps), code |-> 0]
      ELSE IF cl.cmd = "init" THEN Settled(HandleInit(ps, t, cl))
      ELSE IF cl.cmd = "sync" THEN Settled(HandleSync(ps))
      ELSE IF cl.cmd = "list" THEN Settled(HandleList(ps))
      ELSE IF cl.cmd = "help"
           \* handleHelp is not async: .catch of undefined throws
           THEN [ps |-> [HandleHelp(ps) EXCEPT !.err = "TypeError"], code |-> 1]
      ELSE IF cl.cmd \in InheritedNames
           THEN [ps |-> [ps EXCEPT !.err = "TypeError"], code |-> 1]
      ELSE [ps |-> HandleHelp([ps EXCEPT !.err = "Unknown command"]), code |-> 1]

(***************************************************************************)
(* The template root                                                       *)
(***************************************************************************)
Plain == TextFile(<<"# Title\n", "{language}", "\n">>)

Tokened == TextFile(<<"# ", "{PROJECT_NAME}", " / ", "{OTHER}", " / ", "{PROJECT_NAME}", "\n">>)

\* templates/ as shipped: conventions.md and stack.md, without bound tokens
ShippedTemplates ==
  [n \in TemplateNames |-> IF n \in {"conventions.md", "stack.md"} THEN Plain ELSE NoFile]

\* a template root in which every template exists and carries tokens
CompleteTemplates == [n \in TemplateNames |-> Tokened]

TemplateRoots == {ShippedTemplates, CompleteTemplates}

(***************************************************************************)
(* State machine                                                           *)
(***************************************************************************)
CmdLine(cmd, name, full) == [cmd |-> cmd, name |-> name, full |-> full]

EnvLine == CmdLine("<env>", NoArg, FALSE)

NoReport == [out |-> <<>>, err |-> "none", header |-> -1]

\* no helper applied yet
NoCall == [fn |-> "none"]

\* the processes that can run at once: two sync and one init --full
Pids == {"sync1", "sync2", "init"}

\* a process that has not been started
IdleProc ==
  [pc |-> "idle", skills |-> NoSkills, detected |-> NoSkills, doc |-> NoFile,
   err |-> "none"]

Init ==
  /\ fs = EmptyTree
  /\ before = EmptyTree
  /\ last = EnvLine
  /\ repeat = FALSE
  /\ report = NoReport
  /\ exitCode = 0
  /\ tpl \in TemplateRoots
  /\ input = NoCall
  /\ output = NoCall
  /\ prior = [cl |-> EnvLine, code |-> 0, tree |-> EmptyTree]
  /\ procs = [p \in Pids |-> IdleProc]
  /\ writes = <<>>
  /\ faults = 0

\* the process started with command line cl ends with outcome r = [ps, code]
Finish(cl, r) ==
  /\ fs' = r.ps.fs
  /\ before' = fs
  /\ repeat' = (last = cl)
  /\ last' = cl
  /\ report' = [out |-> r.ps.out, err |-> r.ps.err, header |-> r.ps.header]
  /\ exitCode' = r.code
  /\ prior' = [cl |-> last, code |-> exitCode, tree |-> before]
  /\ UNCHANGED <<tpl, input, output, procs, writes>>

\* one invocation of the CLI, run to completion
Run(cl) == Finish(cl, Dispatch(fs, tpl, cl)) /\ UNCHANGED faults

InitCmd == \E name \in ProjectNames \cup {NoArg}, full \in BOOLEAN : Run(CmdLine("init", name, full))

SyncCmd == Run(CmdLine("sync", NoArg, FALSE))

ListCmd == Run(CmdLine("list", NoArg, FALSE))

HelpCmd == \E c \in HelpFlags \cup {"help"} : Run(CmdLine(c, NoArg, FALSE))

UnknownCmd == \E c \in UnknownNames \cup InheritedNames : Run(CmdLine(c, NoArg, FALSE))

\* at most this many filesystem errors in a behaviour
MaxFaults == 1

\* init stopped by a filesystem error in one of its calls
InitFaultCmd ==
  \E name \in ProjectNames \cup {NoArg}, full \in BOOLEAN, k \in FaultKinds :
    \E n \in 1..Len(InitSteps(full)) :
      LET cl == CmdLine("init", name, full)
          projectName == IF name = NoArg THEN CwdName ELSE name
          pre == RunSteps(Proc(fs), tpl, projectName, SubSeq(InitSteps(full), 1, n - 1))
      IN  /\ faults < MaxFaults
          /\ faults' = faults + 1
          /\ FaultPossible(pre, InitSteps(full)[n], k)
          /\ Finish(cl, Settled(HandleInitAborted(Proc(fs), tpl, cl, n, k)))

\* sync stopped by a filesystem error while it lists or reads
SyncFaultCmd ==
  \E at \in SyncFaults :
    /\ faults < MaxFaults
    /\ faults' = faults + 1
    /\ ExistsDir(fs, SkillsDir)
    /\ at \in SkillNames => (fs.entries[at] = "dir" /\ fs.skillmd[at] # NoFile)
    /\ Finish(CmdLine("sync", NoArg, FALSE), Settled(HandleSyncAborted(Proc(fs), at)))

\* a change made to the tree by the user between invocations
Env(f) ==
  /\ f # fs
  /\ fs' = f
  /\ before' = f
  /\ last' = EnvLine
  /\ repeat' = FALSE
  /\ report' = NoReport
  /\ exitCode' = 0
  /\ prior' = [cl |-> EnvLine, code |-> 0, tree |-> f]
  /\ UNCHANGED <<tpl, input, output, procs, writes, faults>>

(***************************************************************************)
(* What the user does to the tree between invocations                      *)
(***************************************************************************)
\* at most this many entries in .agents/skills
MaxEntries == 2

HandWritten == TextFile(<<"written by hand">>)

\* scaffold files the user writes or removes
EditablePaths == {"AGENTS.md", ".context/stack.md"}

UserEdit ==
  \E p \in EditablePaths :
    Env([fs EXCEPT !.dirs = @ \cup Ancestors(Dirname(p)), !.files[p] = HandWritten])

UserDelete ==
  \E p \in EditablePaths : Env([fs EXCEPT !.files[p] = NoFile])

MakeSkillsDir == Env(MkdirP(fs, SkillsDir))

\* SKILL.md texts
SkillMdFull ==
  <<<<"---">>, <<"name", ":", " ", "foo">>, <<"description", ":", " ", "bar">>,
    <<"version", ":", " ", "2.0.0">>, <<"---">>, <<"body">>>>

SkillMdEdited ==
  <<<<"---">>, <<"name", ":", " ", "foo">>, <<"description", ":", " ", "see", ":", "docs">>,
    <<"version", ":", " ", "2.0.0">>, <<"---">>, <<"body">>>>

SkillMdUnclosed ==
  <<<<"---">>, <<"name", ":", " ", "foo">>, <<"version", ":", " ", "2.0.0">>, <<"body">>>>

SkillMdBlank ==
  <<<<"---">>, <<"version", ":">>, <<"description", ":", " ">>, <<"note">>, <<"---">>>>

SkillMdTexts == {SkillMdFull, SkillMdEdited, SkillMdUnclosed, SkillMdBlank}

EntryCount(f) == Cardinality({n \in SkillNames : f.entries[n] # "none"})

\* a directory or a plain file appears in .agents/skills
AddEntry ==
  \E n \in SkillNames, k \in {"dir", "file"} :
    /\ ExistsDir(fs, SkillsDir)
    /\ fs.entries[n] = "none"
    /\ EntryCount(fs) < MaxEntries
    /\ Env([fs EXCEPT !.entries[n] = k])

\* SKILL.md is written, or rewritten, in a skill directory
WriteSkillMd ==
  \E n \in SkillNames, md \in SkillMdTexts :
    /\ fs.entries[n] = "dir"
    /\ Env([fs EXCEPT !.skillmd[n] = TextFile(md)])

RemoveSkillMd ==
  \E n \in SkillNames :
    /\ fs.skillmd[n] # NoFile
    /\ Env([fs EXCEPT !.skillmd[n] = NoFile])

RemoveEntry ==
  \E n \in SkillNames :
    /\ fs.entries[n] # "none"
    /\ Env([fs EXCEPT !.entries[n] = "none", !.skillmd[n] = NoFile])

\* source members a manifest written by hand can carry (Undefined: none)
HandSources == {Undefined, Str(<<>>), Str(<<"registry">>), Str(<<"custom">>),
                Num("1e999")}

HandRecord(src) ==
  [version |-> Str(<<"0.0.9">>), source |-> src, description |-> Str(<<"stale">>),
   extra |-> TRUE]

HandTop == [schema |-> Undefined, version |-> Str(<<"0.1">>), extra |-> TRUE]

Unparsable == TextFile(<<"{ \"skills\": ">>)

\* unparsable text, a document without a skills member, one with an empty
\* skills member, and one with a single record
HandManifests ==
  {Unparsable, JsonFile("compact", HandTop, FALSE, NoSkills),
   JsonFile("compact", HandTop, TRUE, NoSkills)}
  \cup {JsonFile("compact", HandTop, TRUE, [n \in {name} |-> HandRecord(src)]) :
          name \in SkillNames, src \in HandSources}

\* the user writes the manifest by hand
EditManifest ==
  \E m \in HandManifests :
    /\ ExistsDir(fs, SkillsDir)
    /\ Env([fs EXCEPT !.files[ManifestPath] = m])

RemoveManifest == Env([fs EXCEPT !.files[ManifestPath] = NoFile])

\* a skill is installed by another tool: its directory and its SKILL.md
InstallSkill ==
  /\ ExistsDir(fs, SkillsDir)
  /\ fs.entries["alpha"] = "none"
  /\ Env([fs EXCEPT !.entries["alpha"] = "dir", !.skillmd["alpha"] = TextFile(SkillMdFull)])

\* rm -r .agents/skills
RemoveSkillsDir ==
  /\ ExistsDir(fs, SkillsDir)
  /\ Env([fs EXCEPT !.dirs = @ \ {SkillsDir},
                    !.files[ManifestPath] = NoFile,
                    !.entries = [n \in SkillNames |-> "none"],
                    !.skillmd = [n \in SkillNames |-> NoFile]])

(***************************************************************************)
(* Processes running at once on one project directory.  Each call that     *)
(* reads or writes the manifest is a step of its own; fs.writeFileSync is  *)
(* two steps, the open that creates or empties the file and the write of   *)
(* the content at its beginning.                                           *)
(***************************************************************************)
SyncPids == {"sync1", "sync2"}

\* one step of process p: its new local state and the new tree
ProcStep(p, rec, f) ==
  /\ procs' = [procs EXCEPT ![p] = rec]
  /\ fs' = f
  /\ UNCHANGED <<before, last, repeat, report, exitCode, tpl, input, output, prior, faults>>

\* a manifest followed by the end of a longer one: not JSON
TornManifest == TextFile(<<"manifest", "end of a longer manifest">>)

\* the file after the text of doc is written at its beginning: a longer
\* text that another process wrote since this one opened the file keeps
\* its end.  Of two manifests made of the same records the one with more
\* records is the longer; a torn file is as long as the longest manifest
\* written, the one with a record.
Overlay(cur, doc) ==
  IF \/ /\ cur.kind = "json"
        /\ DOMAIN doc.skills # DOMAIN cur.skills
        /\ DOMAIN doc.skills \subseteq DOMAIN cur.skills
     \/ cur = TornManifest /\ DOMAIN doc.skills = {}
  THEN TornManifest
  ELSE doc

\* lines 153-157
SyncStart ==
  \E p \in SyncPids :
    /\ procs[p].pc = "idle"
    /\ IF ExistsDir(fs, SkillsDir)
       THEN ProcStep(p, [procs[p] EXCEPT !.pc = "prev"], fs)
       ELSE ProcStep(p, [procs[p] EXCEPT !.pc = "done", !.err = NoSkillsDirError], fs)
    /\ UNCHANGED writes

\* lines 163-176
SyncReadPrev ==
  \E p \in SyncPids :
    /\ procs[p].pc = "prev"
    /\ ProcStep(p, [procs[p] EXCEPT !.pc = "scan", !.skills = PreviousSkills(Proc(fs)).skills],
                fs)
    /\ UNCHANGED writes

\* lines 178-204: the directory is listed and the SKILL.md files are read;
\* skills appear whole, so the scan sees the directory of one moment
SyncScan ==
  \E p \in SyncPids :
    /\ procs[p].pc = "scan"
    /\ LET scanned == Scan([ps |-> Proc(fs), detected |-> NoSkills], fs, procs[p].skills,
                           EntryOrder)
       IN  ProcStep(p, [procs[p] EXCEPT !.pc = "open", !.detected = scanned.detected,
                                       !.doc = StringifyManifest(scanned.detected)],
                    fs)
    /\ UNCHANGED writes

\* line 206, fs.writeFileSync: the file is opened and emptied
SyncOpen ==
  \E p \in SyncPids :
    /\ procs[p].pc = "open"
    /\ ProcStep(p, [procs[p] EXCEPT !.pc = "write"], [fs EXCEPT !.files[ManifestPath] = Truncated])
    /\ UNCHANGED writes

\* line 206, fs.writeFileSync: the content is written
SyncWrite ==
  \E p \in SyncPids :
    /\ procs[p].pc = "write"
    /\ ProcStep(p, [procs[p] EXCEPT !.pc = "done"],
                [fs EXCEPT !.files[ManifestPath] = Overlay(@, procs[p].doc)])
    /\ writes' = Append(writes, [pid |-> p, doc |-> procs[p].doc])

\* init --full, lines 61-110: the directories and every file but the
\* manifest, none of which sync reads
InitScaffold ==
  /\ procs["init"].pc = "idle"
  /\ LET steps == InitSteps(TRUE)
     IN  ProcStep("init", [procs["init"] EXCEPT !.pc = "guard"],
                  RunSteps(Proc(fs), tpl, CwdName, SubSeq(steps, 1, Len(steps) - 1)).fs)
  /\ UNCHANGED writes

\* line 119: if (!fs.existsSync(manifestPath))
InitGuard ==
  /\ procs["init"].pc = "guard"
  /\ ProcStep("init",
              [procs["init"] EXCEPT !.pc = IF ExistsFile(fs, ManifestPath) THEN "done" ELSE "exists",
                                    !.doc = EmptyManifest],
              fs)
  /\ UNCHANGED writes

\* writeFile, lines 332-338: mkdirSync, then the existsSync test
InitExists ==
  /\ procs["init"].pc = "exists"
  /\ ProcStep("init",
              [procs["init"] EXCEPT !.pc = IF ExistsFile(fs, ManifestPath) THEN "done" ELSE "open"],
              MkdirP(fs, SkillsDir))
  /\ UNCHANGED writes

\* writeFile, line 340, fs.writeFileSync: the file is opened and emptied
InitOpen ==
  /\ procs["init"].pc = "open"
  /\ ProcStep("init", [procs["init"] EXCEPT !.pc = "write"],
              [fs EXCEPT !.files[ManifestPath] = Truncated])
  /\ UNCHANGED writes

\* writeFile, line 340, fs.writeFileSync: the content is written
InitWrite ==
  /\ procs["init"].pc = "write"
  /\ ProcStep("init", [procs["init"] EXCEPT !.pc = "done"],
              [fs EXCEPT !.files[ManifestPath] = Overlay(@, procs["init"].doc)])
  /\ writes' = Append(writes, [pid |-> "init", doc |-> procs["init"].doc])

(***************************************************************************)
(* Direct applications of the template engine and the frontmatter parser   *)
(***************************************************************************)
\* at most this many tokens in a template
MaxTokens == 3

\* at most this many lines in a text given to the parser
MaxLines == 4

TemplateTokens == {"text", "{PROJECT_NAME}", "{OTHER}"}

TemplateBodies == UNION {[1..k -> TemplateTokens] : k \in 0..MaxTokens}

\* project names: a plain one and two that carry a replacement pattern
RenderValues == {"Foo", "$&", "$$"}

\* writeTemplate's content for a template that exists, bindings
\* { PROJECT_NAME: value }; the functions keep no state between calls, so
\* a behaviour applies one of them once
RenderStep ==
  \E body \in TemplateBodies, value \in RenderValues :
    /\ input = NoCall
    /\ input' = [fn |-> "render", body |-> body, value |-> value]
    /\ output' = [fn |-> "render",
                  content |-> Render([n \in {"t.md"} |-> TextFile(body)], "t.md",
                                     Bind(value))]
    /\ UNCHANGED <<fs, before, last, repeat, report, exitCode, tpl, prior, procs, writes,
                   faults>>

\* the lines a text is made of: the marker, the marker followed by one
\* more dash, key: value lines, a line without colon
TextLines ==
  {<<Marker>>, <<Marker, "-">>, <<"name", ":", " ", "foo">>,
   <<"description", ":", " ", "see", ":", "docs">>, <<"body">>,
   <<"__proto__", ":", " ", "x">>}

ParseTexts == UNION {[1..k -> TextLines] : k \in 0..MaxLines}

\* parseFrontmatter(content)
ParseStep ==
  \E text \in ParseTexts :
    /\ input = NoCall
    /\ input' = [fn |-> "parse", text |-> text]
    /\ output' = [fn |-> "parse", mapping |-> ParseFrontmatter(text)]
    /\ UNCHANGED <<fs, before, last, repeat, report, exitCode, tpl, prior, procs, writes,
                   faults>>

(***************************************************************************)
(* Specifications                                                          *)
(***************************************************************************)
\* the template engine and the parser applied to arbitrary small inputs
NextPure == RenderStep \/ ParseStep

SpecPure == Init /\ [][NextPure]_vars

\* every command, on trees in which the user writes the manifest, another
\* tool installs a skill and the skills directory can be removed
NextCli ==
  \/ InitCmd \/ SyncCmd \/ ListCmd \/ HelpCmd \/ UnknownCmd
  \/ EditManifest \/ InstallSkill \/ RemoveSkillsDir

SpecCli == Init /\ [][NextCli]_vars

\* two sync and one init --full at once, while the skills directory is
\* made and a skill is installed
NextRace ==
  \/ SyncStart \/ SyncReadPrev \/ SyncScan \/ SyncOpen \/ SyncWrite
  \/ InitScaffold \/ InitGuard \/ InitExists \/ InitOpen \/ InitWrite
  \/ MakeSkillsDir \/ InstallSkill

SpecRace == Init /\ [][NextRace]_vars

\* the synchroniser on a filesystem that can fail
NextSyncFault ==
  \/ SyncCmd \/ SyncFaultCmd \/ MakeSkillsDir \/ InstallSkill \/ EditManifest
  \/ RemoveSkillsDir

SpecSyncFault == Init /\ [][NextSyncFault]_vars

\* the scaffolder on a filesystem that can fail
NextInitFault == InitCmd \/ InitFaultCmd

SpecInitFault == Init /\ [][NextInitFault]_vars

\* the scaffolder alone, on trees the user also writes to
NextScaffold == InitCmd \/ UserEdit \/ UserDelete

SpecScaffold == Init /\ [][NextScaffold]_vars

\* the synchroniser, on skill directories and manifests the user also
\* writes to
NextSync ==
  \/ SyncCmd \/ MakeSkillsDir \/ AddEntry \/ WriteSkillMd \/ RemoveSkillMd
  \/ RemoveEntry \/ EditManifest \/ RemoveManifest

SpecSync == Init /\ [][NextSync]_vars

\* init and sync on a tree in which the user writes the manifest and
\* another tool installs a skill
NextManifest == InitCmd \/ SyncCmd \/ EditManifest \/ InstallSkill

SpecManifest == Init /\ [][NextManifest]_vars

\* every command of the CLI
Next ==
  \/ InitCmd \/ SyncCmd \/ ListCmd \/ HelpCmd \/ UnknownCmd \/ RemoveSkillsDir

Spec == Init /\ [][Next]_vars

(***************************************************************************)
(* Properties                                                              *)
(***************************************************************************)
Ran(cmd) == last.cmd = cmd

Manifest(f) == f.files[ManifestPath]

\* the directories sync is meant to record: those holding a SKILL.md
SkillDirs(f) == {n \in SkillNames : f.entries[n] = "dir" /\ f.skillmd[n] # NoFile}

\* C1: a second init with the same arguments, nothing having changed in
\* between, leaves the tree exactly as the first one left it
C1_InitTwiceSameTree == (Ran("init") /\ repeat) => fs = before

C1_Witness ==
  /\ Ran("init") /\ repeat /\ last.full
  /\ fs.files[".cursorrules"] = StubContent
  /\ fs.files[".context/stack.md"] = HandWritten

\* C2: init changes no file that existed before it ran, whoever wrote it;
\* it only adds files whose path was absent
C2_ExistingFilesUntouched ==
  Ran("init") =>
    /\ \A p \in Files : ExistsFile(before, p) => fs.files[p] = before.files[p]
    /\ fs.skillmd = before.skillmd

C2_Witness ==
  /\ Ran("init") /\ last.name = "beta" /\ tpl = CompleteTemplates
  /\ before.files["AGENTS.md"] = TextFile(Render(tpl, "AGENTS.md", Bind("acme")))
  /\ before.files["AGENTS.md"] # TextFile(Render(tpl, "AGENTS.md", Bind("beta")))
  /\ before.files[".context/stack.md"] = HandWritten
  /\ fs.files["AGENTS.md"] = before.files["AGENTS.md"]
  /\ ExistsFile(fs, ".cursorrules") /\ ~ExistsFile(before, ".cursorrules")

\* C3: a second successful sync, nothing having changed in between, writes
\* the same manifest bytes as the first
C3_SyncTwiceSameManifest ==
  (Ran("sync") /\ repeat /\ exitCode = 0) => Manifest(fs) = Manifest(before)

PreviousRecordOf(n) ==
  /\ Parsable(Manifest(before)) /\ Manifest(before).hasSkills
  /\ n \in DOMAIN Manifest(before).skills
  /\ Manifest(before).skills[n].source # Undefined

\* C4: the source of every record sync writes is the source that name had
\* in the manifest before the sync, and "local" when it had none
C4_SourceCarriedForward ==
  (Ran("sync") /\ exitCode = 0) =>
    \A n \in DOMAIN Manifest(fs).skills :
      Manifest(fs).skills[n].source =
        IF PreviousRecordOf(n) THEN Manifest(before).skills[n].source ELSE Local

\* C5: after a successful sync the keys of the manifest are exactly the
\* names of the directories of .agents/skills that hold a SKILL.md
C5_KeysAreSkillDirs ==
  (Ran("sync") /\ exitCode = 0) => DOMAIN Manifest(fs).skills = SkillDirs(before)

\* C6: without .agents/skills, sync fails with the instructive error and
\* status 1 and leaves the tree as it was
C6_SyncWithoutSkillsDir ==
  (Ran("sync") /\ ~ExistsDir(before, SkillsDir)) =>
    /\ report.err = NoSkillsDirError
    /\ exitCode = 1
    /\ fs = before
    /\ ~ExistsFile(fs, ManifestPath)

C6_Witness ==
  /\ Ran("sync") /\ ~ExistsDir(before, SkillsDir)
  /\ ExistsFile(before, "AGENTS.md")

\* the manifest sync writes on the tree f
Synced(f) == Manifest(HandleSync(Proc(f)).fs)

\* C7: an unparsable manifest makes sync warn, exit 0 and write what it
\* would have written with no manifest at all, every source "local"
C7_UnparsableManifestIsEmpty ==
  (Ran("sync") /\ ExistsFile(before, ManifestPath) /\ ~Parsable(Manifest(before))) =>
    /\ exitCode = 0
    /\ report.err = "none"
    /\ \E i \in 1..Len(report.out) : report.out[i].k = "warn"
    /\ Manifest(fs) = Synced([before EXCEPT !.files[ManifestPath] = NoFile])
    /\ \A n \in DOMAIN Manifest(fs).skills : Manifest(fs).skills[n].source = Local

C7_Witness ==
  /\ Ran("sync") /\ Manifest(before) = Unparsable
  /\ "alpha" \in DOMAIN Manifest(fs).skills

\* the frontmatter of the SKILL.md of directory n of the tree f
FrontmatterOf(f, n) == ParseFrontmatter(f.skillmd[n].body)

Present(fm, key) == <<key>> \in DOMAIN fm

\* the previous manifest reduced to its per-name source values
SourcesOnly(file) ==
  IF Parsable(file) /\ file.hasSkills
  THEN JsonFile("indent2", StdTop, TRUE,
                [n \in DOMAIN file.skills |->
                   [version |-> Undefined, source |-> file.skills[n].source,
                    description |-> Undefined, extra |-> FALSE]])
  ELSE NoFile

\* C8 as stated: version and description are the frontmatter values
\* whenever the frontmatter has the key
C8_FrontmatterValuesIfPresent ==
  (Ran("sync") /\ exitCode = 0) =>
    \A n \in DOMAIN Manifest(fs).skills :
      LET fm == FrontmatterOf(before, n)
          rec == Manifest(fs).skills[n]
      IN  /\ rec.version = IF Present(fm, "version") THEN Str(fm[<<"version">>])
                           ELSE DefaultVersion
          /\ rec.description = IF Present(fm, "description")
                               THEN Str(fm[<<"description">>])
                               ELSE DefaultDescription

\* C8 (amended): the manifest is a function of the frontmatter and of the
\* previous per-name sources only; version and description are the
\* frontmatter values when present and not empty, the defaults otherwise
C8_ManifestRebuilt ==
  (Ran("sync") /\ exitCode = 0) =>
    /\ Manifest(fs).fmt = "indent2" /\ Manifest(fs).top = StdTop /\ Manifest(fs).hasSkills
    /\ Manifest(fs) = Synced([before EXCEPT !.files[ManifestPath] =
                                              SourcesOnly(Manifest(before))])
    /\ \A n \in DOMAIN Manifest(fs).skills :
         LET fm == FrontmatterOf(before, n)
             rec == Manifest(fs).skills[n]
         IN  /\ rec.version = IF Present(fm, "version") /\ fm[<<"version">>] # <<>>
                              THEN Str(fm[<<"version">>]) ELSE DefaultVersion
             /\ rec.description = IF Present(fm, "description")
                                     /\ fm[<<"description">>] # <<>>
                                  THEN Str(fm[<<"description">>])
                                  ELSE DefaultDescription
             /\ ~rec.extra

C8_Witness ==
  /\ Ran("sync") /\ exitCode = 0
  /\ Parsable(Manifest(before)) /\ Manifest(before).hasSkills
  /\ "alpha" \in DOMAIN Manifest(before).skills
  /\ Manifest(before).skills["alpha"].version = Str(<<"0.0.9">>)
  /\ Manifest(before).skills["alpha"].extra
  /\ before.skillmd["alpha"] = TextFile(SkillMdBlank)
  /\ "alpha" \in DOMAIN Manifest(fs).skills

\* C9: init creates the empty manifest only in full mode and only when
\* there is no manifest; a manifest that exists is left byte-identical
C9_ManifestOnlyWhenAbsent ==
  Ran("init") =>
    Manifest(fs) = IF ExistsFile(before, ManifestPath) THEN Manifest(before)
                   ELSE IF last.full THEN EmptyManifest ELSE NoFile

C9_Witness ==
  /\ Ran("init") /\ last.full
  /\ Parsable(Manifest(before))
  /\ "alpha" \in DOMAIN Manifest(before).skills
  /\ Manifest(before).fmt = "indent2"
  /\ Manifest(fs) = Manifest(before)

\* C10: the second of two init runs with the same arguments reports every
\* item as skipped and none as created
C10_SecondRunAllSkipped ==
  (Ran("init") /\ repeat) =>
    \A i \in 1..Len(report.out) : report.out[i].k = "skipped"

(***************************************************************************)
(* Properties of the scaffolder's file set and of the template engine      *)
(***************************************************************************)
\* the template each templated output path is rendered from
TemplateFor ==
  [p \in {"AGENTS.md", ".context/project.md", ".context/conventions.md",
          ".context/architecture.md", ".context/stack.md",
          ".context/specs/_template.md"} |->
     CASE p = "AGENTS.md" -> "AGENTS.md"
       [] p = ".context/project.md" -> "project.md"
       [] p = ".context/conventions.md" -> "conventions.md"
       [] p = ".context/architecture.md" -> "architecture.md"
       [] p = ".context/stack.md" -> "stack.md"
       [] p = ".context/specs/_template.md" -> "_template.md"]

LiteFileSet == {"AGENTS.md", ".context/project.md", ".context/conventions.md"}

FullDirSet == {".context/specs/.archive", ".github"}

ProjectNameOf(cl) == IF cl.name = NoArg THEN CwdName ELSE cl.name

\* the last command wrote the file p
Written(p) == ~ExistsFile(before, p) /\ ExistsFile(fs, p)

FilesOf(f) == {p \in Files : ExistsFile(f, p)}

HasToken(body, token) == \E i \in 1..Len(body) : body[i] = token

\* body with every occurrence of the token replaced by the value itself
LiteralReplace(body, token, value) ==
  [i \in 1..Len(body) |-> IF body[i] = token THEN value ELSE body[i]]

\* C11: init --full creates .context/specs/.archive and .github; init in
\* lite mode creates neither of them
C11_FullOnlyDirectories ==
  Ran("init") =>
    IF last.full THEN FullDirSet \subseteq fs.dirs
    ELSE fs.dirs \cap FullDirSet = before.dirs \cap FullDirSet

C11_Witness ==
  /\ Ran("init") /\ last.full
  /\ ".context/specs" \in before.dirs
  /\ before.dirs \cap FullDirSet = {}
  /\ ExistsFile(before, "AGENTS.md")
  /\ FullDirSet \subseteq fs.dirs

\* C12: on a tree without files, lite init creates exactly the three lite
\* files; full init creates those, the three further context files, the
\* two stubs with the same fixed content, and the empty manifest
C12_FileSetPerMode ==
  (Ran("init") /\ FilesOf(before) = {}) =>
    /\ FilesOf(fs) = IF last.full THEN Files ELSE LiteFileSet
    /\ last.full =>
         /\ fs.files[".cursorrules"] = StubContent
         /\ fs.files[".github/copilot-instructions.md"] = StubContent
         /\ Manifest(fs) = EmptyManifest

C12_Witness ==
  /\ Ran("init") /\ last.full /\ last.name = "beta"
  /\ before = EmptyTree
  /\ FilesOf(fs) = Files

\* C13: every scaffolded file whose template exists and contains
\* {PROJECT_NAME} is written with the token replaced by the project name
C13_ProjectNameAlwaysBound ==
  Ran("init") =>
    \A p \in DOMAIN TemplateFor :
      (/\ Written(p)
       /\ tpl[TemplateFor[p]] # NoFile
       /\ HasToken(tpl[TemplateFor[p]].body, "{PROJECT_NAME}")) =>
        /\ ~HasToken(fs.files[p].body, "{PROJECT_NAME}")
        /\ fs.files[p].body =
             LiteralReplace(tpl[TemplateFor[p]].body, "{PROJECT_NAME}", ProjectNameOf(last))

\* C14: the rendered content is the template with every {PROJECT_NAME}
\* replaced by the bound value taken literally and everything else,
\* {OTHER} included, unchanged; no {PROJECT_NAME} remains
C14_LiteralSubstitution ==
  input.fn = "render" =>
    /\ output.content = LiteralReplace(input.body, "{PROJECT_NAME}", input.value)
    /\ ~HasToken(output.content, "{PROJECT_NAME}")
    /\ HasToken(input.body, "{PROJECT_NAME}") => HasToken(output.content, input.value)

\* C15: a template missing from the template root gives the fallback
\* content, and init goes on to write every other file of its mode
C15_MissingTemplateFallback ==
  Ran("init") =>
    /\ exitCode = 0
    /\ \A p \in DOMAIN TemplateFor :
         (Written(p) /\ tpl[TemplateFor[p]] = NoFile) =>
           fs.files[p] = TextFile(<<"# ", TemplateFor[p], "\n\nTODO: Configure this file.\n">>)
    /\ (IF last.full THEN Files ELSE LiteFileSet) \subseteq FilesOf(fs)

C15_Witness ==
  /\ Ran("init") /\ last.full /\ tpl = ShippedTemplates
  /\ Written("AGENTS.md") /\ Written(".context/specs/_template.md")
  /\ fs.files["AGENTS.md"] = TextFile(<<"# ", "AGENTS.md", "\n\nTODO: Configure this file.\n">>)
  /\ Written(ManifestPath)

(***************************************************************************)
(* Properties of the frontmatter parser                                    *)
(***************************************************************************)
\* a marker line, interior lines, a marker line
WellFormedBlock(text) ==
  /\ Len(text) >= 2
  /\ text[1] = <<Marker>>
  /\ \E j \in 2..Len(text) : text[j] = <<Marker>>

ClosingMarker(text) ==
  CHOOSE j \in 2..Len(text) :
    /\ text[j] = <<Marker>>
    /\ \A k \in 2..Len(text) : text[k] = <<Marker>> => j <= k

Interior(text) == SubSeq(text, 2, ClosingMarker(text) - 1)

\* each line with a colon split at its first colon, a later line
\* replacing an earlier one with the same key
SplitMapping(lines) ==
  LET idx == {i \in 1..Len(lines) : Colons(lines[i]) # {}}
      keys == {LineKey(lines[i]) : i \in idx}
      lastOf(k) == CHOOSE i \in idx :
                     /\ LineKey(lines[i]) = k
                     /\ \A j \in idx : LineKey(lines[j]) = k => j <= i
  IN  [k \in keys |-> LineValue(lines[lastOf(k)])]

\* C16: for a text beginning with a well-formed block, parseFrontmatter
\* returns exactly the mapping of its interior lines split at the first colon
C16_WellFormedBlockParsed ==
  (input.fn = "parse" /\ WellFormedBlock(input.text)) =>
    output.mapping = SplitMapping(Interior(input.text))

\* C17: a text that opens with the marker line and has no closing marker
\* line after it parses to the empty mapping
C17_UnclosedIsEmpty ==
  (/\ input.fn = "parse"
   /\ Len(input.text) >= 1
   /\ input.text[1] = <<Marker>>
   /\ \A j \in 2..Len(input.text) : input.text[j] # <<Marker>>) =>
    output.mapping = EmptyMapping

(***************************************************************************)
(* Properties of the dispatcher                                            *)
(***************************************************************************)
UsagePrinted == \E i \in 1..Len(report.out) : report.out[i].k = "usage"

\* C18: no subcommand, --help, -h and help print usage, exit with status 0
\* and change no file
C18_HelpExitsZero ==
  (last.cmd \in HelpFlags \cup {"help"}) =>
    /\ UsagePrinted
    /\ exitCode = 0
    /\ fs = before

\* C19: a token that is no registered command prints usage, exits with
\* status 1 and changes nothing
C19_UnknownCommandUsage ==
  (last.cmd \notin CommandNames \cup HelpFlags \cup {EnvLine.cmd}) =>
    /\ UsagePrinted
    /\ exitCode = 1
    /\ fs = before

\* the last command, run on the tree before, throws inside its handler
HandlerThrows ==
  \/ Ran("sync") /\ ~ExistsDir(before, SkillsDir)
  \/ /\ Ran("list") /\ ExistsFile(before, ManifestPath)
     /\ (Parsable(Manifest(before)) => ~Manifest(before).hasSkills)

\* C20: an error thrown inside init, sync or list is printed and gives
\* exit status 1; a handler that completes gives exit status 0
C20_HandlerErrorsExitOne ==
  (last.cmd \in {"init", "sync", "list"}) =>
    /\ exitCode = IF HandlerThrows THEN 1 ELSE 0
    /\ HandlerThrows <=> report.err # "none"

C20_Witness ==
  /\ Ran("list")
  /\ Manifest(before) = Unparsable
  /\ report.err = "SyntaxError"
  /\ exitCode = 1
  /\ ExistsFile(before, "AGENTS.md")

(***************************************************************************)
(* Properties of list                                                      *)
(***************************************************************************)
Printed(k) == \E i \in 1..Len(report.out) : report.out[i].k = k

\* C21: list changes nothing in the tree, whatever the manifest is; with
\* no manifest file it prints the no-skills-installed message and exits 0
C21_ListReadOnly ==
  Ran("list") =>
    /\ fs = before
    /\ ~ExistsFile(before, ManifestPath) =>
         /\ Printed("none-installed")
         /\ report.err = "none"
         /\ exitCode = 0

C21_Witness ==
  /\ Ran("list")
  /\ ~ExistsFile(before, ManifestPath)
  /\ ExistsDir(before, SkillsDir)
  /\ Printed("none-installed")
  /\ exitCode = 0

(***************************************************************************)
(* Properties of init on a failing filesystem                              *)
(***************************************************************************)
\* what init makes, in the order in which it makes it
Products(isFull) == [i \in 1..Len(InitSteps(isFull)) |-> InitSteps(isFull)[i].path]

Has(f, p) == IF p \in Files THEN ExistsFile(f, p) ELSE ExistsDir(f, p)

Aborted == Ran("init") /\ exitCode = 1

\* the statements of init run one after the other give what handleInit gives
StepsAreHandleInit ==
  (Ran("init") /\ exitCode = 0) =>
    fs = RunSteps(Proc(before), tpl, ProjectNameOf(last), InitSteps(last.full)).fs

\* C22: an aborted init has run no statement after the failing one and
\* has removed nothing; an error-free init with the same arguments after
\* it gives the tree that one error-free init gives on the original tree
C22_AbortedInitCompletes ==
  /\ Aborted =>
       /\ before.dirs \subseteq fs.dirs
       /\ \A p \in Files : ExistsFile(before, p) => fs.files[p] = before.files[p]
       /\ \A i, j \in 1..Len(Products(last.full)) :
            (i < j /\ ~Has(before, Products(last.full)[j]) /\ Has(fs, Products(last.full)[j]))
              => Has(fs, Products(last.full)[i])
  /\ (Ran("init") /\ exitCode = 0 /\ prior.cl = last /\ prior.code = 1) =>
       fs = HandleInit(Proc(prior.tree), tpl, last).fs

(***************************************************************************)
(* Properties of processes running at once                                 *)
(***************************************************************************)
SyncsDone == \A p \in SyncPids : procs[p].pc = "done"

LastWrite == writes[Len(writes)]

\* C23: when two sync processes have run at once, the manifest on disk is
\* the document of the process that wrote last
C23_LastWriterWins ==
  (SyncsDone /\ procs["init"].pc = "idle" /\ writes # <<>>) =>
    Manifest(fs) = LastWrite.doc

\* C28: once sync has written a manifest, init does not write its empty
\* manifest over it
C28_InitNeverReplacesManifest ==
  \A i, j \in 1..Len(writes) :
    (i < j /\ writes[i].pid \in SyncPids) => writes[j].pid # "init"

(***************************************************************************)
(* Properties of the skill records                                         *)
(***************************************************************************)
\* the manifest is one that sync wrote
WrittenBySync(file) == Parsable(file) /\ file.fmt = "indent2" /\ file.hasSkills

\* C24: a skill directory that is there again after a sync that did not
\* see it gets a record with source "local", whatever source its record
\* had before that sync
C24_RecreatedSkillIsLocal ==
  (Ran("sync") /\ exitCode = 0 /\ WrittenBySync(Manifest(before))) =>
    \A x \in SkillDirs(before) \ DOMAIN Manifest(before).skills :
      /\ x \in DOMAIN Manifest(fs).skills
      /\ Manifest(fs).skills[x].source = Local

(***************************************************************************)
(* Properties of the delimiters of a frontmatter block                     *)
(***************************************************************************)
\* the keys of the lines that have a colon
KeysOf(lines) == {LineKey(lines[i]) : i \in {j \in 1..Len(lines) : Colons(lines[j]) # {}}}

\* a line that begins with the marker and carries more after it
NearMarker(line) == StartsWithMarker(line) /\ line # <<Marker>>

\* C25: a block is recognised only at the very start of the text and only
\* between two lines that are exactly the marker; a closing line with more
\* after the marker closes nothing, and what follows the closing line
\* gives no key
C25_OnlyExactDelimiters ==
  input.fn = "parse" =>
    /\ (Len(input.text) = 0 \/ input.text[1] # <<Marker>>) =>
         output.mapping = EmptyMapping
    /\ (/\ Len(input.text) >= 2
        /\ input.text[1] = <<Marker>>
        /\ \A j \in 2..Len(input.text) : input.text[j] # <<Marker>>
        /\ \E j \in 2..Len(input.text) : NearMarker(input.text[j])) =>
         output.mapping = EmptyMapping
    /\ WellFormedBlock(input.text) =>
         DOMAIN output.mapping \subseteq KeysOf(Interior(input.text))

(***************************************************************************)
(* Properties of the manifest that init and sync write                     *)
(***************************************************************************)
SourceEnum == {Str(<<"local">>), Str(<<"registry">>), Str(<<"core">>), Str(<<"legacy">>)}

\* the last command wrote the manifest
WroteManifest ==
  \/ Ran("sync") /\ exitCode = 0
  \/ Ran("init") /\ ~ExistsFile(before, ManifestPath) /\ ExistsFile(fs, ManifestPath)

\* C26: every record of a manifest written by init or sync has exactly
\* version, source and description, and its source is local, registry,
\* core or legacy
C26_RecordShapeAndSourceEnum ==
  WroteManifest =>
    \A n \in DOMAIN Manifest(fs).skills :
      /\ ~Manifest(fs).skills[n].extra
      /\ Manifest(fs).skills[n].source \in SourceEnum

\* C27: sync writes the manifest and nothing else, after everything it
\* prints but the closing line; a sync that fails leaves the whole tree,
\* the manifest included, as it was
C27_SyncWritesOnlyManifestLast ==
  Ran("sync") =>
    /\ fs.dirs = before.dirs
    /\ fs.entries = before.entries
    /\ fs.skillmd = before.skillmd
    /\ \A p \in ScaffoldFiles : fs.files[p] = before.files[p]
    /\ exitCode = 1 => (fs = before /\ ~Printed("updated"))
    /\ exitCode = 0 =>
         /\ WrittenBySync(Manifest(fs))
         /\ report.out[Len(report.out)].k = "updated"

C27_Witness ==
  /\ Ran("sync") /\ exitCode = 1
  /\ report.err = "EISDIR"
  /\ Parsable(Manifest(before))
  /\ "alpha" \in DOMAIN Manifest(before).skills
  /\ "alpha" \in SkillDirs(before)
  /\ Manifest(fs) = Manifest(before)

(***************************************************************************)
(* Properties of upgrading from lite to full                               *)
(***************************************************************************)
\* the last two commands were init with the same project name, the first
\* in mode a and the second in mode b, both without error
InitThenInit(a, b) ==
  /\ Ran("init") /\ exitCode = 0 /\ last.full = b
  /\ prior.cl.cmd = "init" /\ prior.code = 0 /\ prior.cl.full = a
  /\ prior.cl.name = last.name

\* C29: lite init followed by full init gives the tree that full init
\* alone gives on the starting tree, and lite init after full init
\* changes nothing
C29_UpgradeEqualsFull ==
  /\ InitThenInit(FALSE, TRUE) => fs = HandleInit(Proc(prior.tree), tpl, last).fs
  /\ InitThenInit(TRUE, FALSE) => fs = before

C29_Witness ==
  /\ InitThenInit(FALSE, TRUE)
  /\ ExistsFile(prior.tree, ".context/stack.md")
  /\ ~ExistsFile(prior.tree, "AGENTS.md")
  /\ ~ExistsFile(before, ".cursorrules")
  /\ fs.files[".cursorrules"] = StubContent
  /\ fs.files[".context/stack.md"] = HandWritten

(***************************************************************************)
(* Properties of the groups that list prints                               *)
(***************************************************************************)
Groups == {"core", "registry", "legacy", "local"}

\* how many lines of the groups name the skill n
PrintedTimes(n) ==
  Cardinality({i \in 1..Len(report.out) : report.out[i].k \in Groups /\ report.out[i].item = n})

PrintedEntries == Cardinality({i \in 1..Len(report.out) : report.out[i].k \in Groups})

\* C30: list prints each record of the manifest once, and as many entries
\* as the header counts
C30_EveryRecordListedOnce ==
  (Ran("list") /\ report.header >= 0) =>
    /\ \A n \in DOMAIN Manifest(before).skills : PrintedTimes(n) = 1
    /\ PrintedEntries = report.header

====
